---- MODULE Spec2Model ----
(***************************************************************************)
(* GenerateColocDataset (src/datasets/coloc.py): a Hadoop streaming job    *)
(* whose mapper tags every line of word co-location data as a term         *)
(* frequency ("freqn-") or a co-location ("coloc-") record, and whose      *)
(* reducer sums the counts of each key.  Strings are sequences of          *)
(* one-character strings, so that split, concatenation, int() and the      *)
(* formatting of a total are computed character by character.              *)
(***************************************************************************)
EXTENDS Integers, Sequences, FiniteSets, TLC

\* Largest number of lines in the input file.
MaxLines == 3
\* Largest number of reduce tasks the job is run with.
MaxWorkers == 2

TAB == "\t"

Digits == <<"0", "1", "2", "3", "4", "5", "6", "7", "8", "9">>

\* The literal prefixes of mapper(): "freqn-" and "coloc-".
FreqnPrefix == <<"f", "r", "e", "q", "n", "-">>
ColocPrefix == <<"c", "o", "l", "o", "c", "-">>

(***************************************************************************)
(* String helpers.                                                         *)
(***************************************************************************)

\* str.split('\t'): the fields between the tabs; "" splits into [""].
RECURSIVE SplitFrom(_, _, _, _)
SplitFrom(s, i, cur, acc) ==
    IF i > Len(s) THEN Append(acc, cur)
    ELSE IF s[i] = TAB THEN SplitFrom(s, i + 1, <<>>, Append(acc, cur))
    ELSE SplitFrom(s, i + 1, Append(cur, s[i]), acc)

Split(s) == SplitFrom(s, 1, <<>>, <<>>)

\* Fields joined by tabs: the layout of a line, "201701<tab>aa<tab>count".
RECURSIVE Tabbed(_)
Tabbed(fields) ==
    IF Len(fields) = 0 THEN <<>>
    ELSE IF Len(fields) = 1 THEN fields[1]
    ELSE fields[1] \o <<TAB>> \o Tabbed(Tail(fields))

\* The position of the n-th tab of s at or after i, 0 when there is none.
RECURSIVE TabPos(_, _, _)
TabPos(s, i, n) ==
    IF i > Len(s) THEN 0
    ELSE IF s[i] = TAB THEN (IF n = 1 THEN i ELSE TabPos(s, i + 1, n - 1))
    ELSE TabPos(s, i + 1, n)

DigitValue(c) == (CHOOSE d \in 1..10 : Digits[d] = c) - 1

\* Whether int(v) returns: v is a non-empty run of decimal digits.
IsInt(v) == Len(v) > 0 /\ \A i \in 1..Len(v) : \E d \in 1..10 : Digits[d] = v[i]

\* int(v) of a decimal string.
RECURSIVE IntOf(_)
IntOf(v) ==
    IF Len(v) = 0 THEN 0
    ELSE 10 * IntOf(SubSeq(v, 1, Len(v) - 1)) + DigitValue(v[Len(v)])

\* The decimal text of a total, as the job writes an int value.
RECURSIVE ToStr(_)
ToStr(n) ==
    IF n < 10 THEN <<Digits[n + 1]>>
    ELSE ToStr(n \div 10) \o <<Digits[(n % 10) + 1]>>

(***************************************************************************)
(* The job's code.                                                         *)
(***************************************************************************)

\* A mapper without the term frequency branch.
MapperAllColoc(line) == <<ColocPrefix \o line>>

\* A mapper that takes a line with an empty third field for a term
\* frequency line.
MapperEmptySecondIsFreqn(line) ==
    LET parts == Split(line) IN
    IF Len(parts) = 3
    THEN <<FreqnPrefix \o parts[1] \o <<TAB>> \o parts[2] \o <<TAB, TAB>> \o parts[3]>>
    ELSE IF Len(parts) = 4 /\ parts[3] = <<>>
         THEN <<FreqnPrefix \o parts[1] \o <<TAB>> \o parts[2] \o <<TAB, TAB>> \o parts[4]>>
         ELSE <<ColocPrefix \o line>>

\* mapper(line): the sequence of strings the generator yields.
mapper(line) ==
    LET parts == Split(line) IN
    IF Len(parts) = 3
    THEN <<FreqnPrefix \o parts[1] \o <<TAB>> \o parts[2] \o <<TAB, TAB>> \o parts[3]>>
    ELSE <<ColocPrefix \o line>>

\* The value of stream.num.map.output.key.fields.
NumMapOutputKeyFields == 3

\* stream.num.map.output.key.fields=3: the first three fields of a mapper
\* output line are its key and the rest its value; a line with fewer than
\* three tabs is all key, with an empty value.
KeyValue(out) ==
    LET pos == TabPos(out, 1, NumMapOutputKeyFields) IN
    IF pos = 0 THEN [key |-> out, value |-> <<>>]
    ELSE [key |-> SubSeq(out, 1, pos - 1), value |-> SubSeq(out, pos + 1, Len(out))]

\* A partitioner that hashes the value.
PartitionOnValue(rec) == rec.value

\* mapred.text.key.partitioner.options=-k1,1: what the partitioner hashes
\* is the first field of the key.
PartitionField(rec) == Split(rec.key)[1]

\* sum(int(v) for v in values).  int() raises
\* ValueError at the first value that is no integer, before anything is
\* yielded.
RECURSIVE SumInts(_)
SumInts(values) ==
    IF Len(values) = 0 THEN [ok |-> TRUE, total |-> 0]
    ELSE IF ~IsInt(values[1]) THEN [ok |-> FALSE, total |-> 0]
    ELSE LET rest == SumInts(Tail(values)) IN
         [ok |-> rest.ok, total |-> IntOf(values[1]) + rest.total]

RECURSIVE SumNumericPrefix(_)
SumNumericPrefix(values) ==
    IF Len(values) = 0 \/ ~IsInt(values[1]) THEN 0
    ELSE IntOf(values[1]) + SumNumericPrefix(Tail(values))

\* A reducer that stops summing at a value that is no integer and yields
\* what it has.
ReducerPartialOnError(key, values) ==
    [ok |-> TRUE, key |-> key, total |-> SumNumericPrefix(values)]

\* A reducer that counts the values instead of adding them up.
ReducerCountValues(key, values) ==
    [ok |-> SumInts(values).ok, key |-> key, total |-> Len(values)]

\* A reducer that takes the first value for the total.
ReducerFirstValue(key, values) ==
    [ok |-> SumInts(values).ok, key |-> key,
     total |-> IF Len(values) > 0 /\ IsInt(values[1]) THEN IntOf(values[1]) ELSE 0]

\* reducer(key, values): yield key, sum(int(v) for v in values).
reducer(key, values) ==
    LET s == SumInts(values) IN [ok |-> s.ok, key |-> key, total |-> s.total]

\* An output named by the type tag alone.
OutputNameByType(key) == SubSeq(key, 1, 5)

\* NamedByFirstKeyMultiOutputFormat: the first field of the key names the
\* output, and is dropped from the line that is written.
OutputName(key) == Split(key)[1]

OutputLine(key, total) ==
    LET pos == TabPos(key, 1, 1) IN
    (IF pos = 0 THEN <<>> ELSE SubSeq(key, pos + 1, Len(key))) \o <<TAB>> \o ToStr(total)

(***************************************************************************)
(* The input: lines of the data shown in the module's documentation, and   *)
(* lines that are not of the two documented shapes.                        *)
(***************************************************************************)
B201701 == <<"2", "0", "1", "7", "0", "1">>
B201702 == <<"2", "0", "1", "7", "0", "2">>
Taa == <<"a", "a">>
Tbb == <<"b", "b">>
Trukc == <<"r", "u", "k", "c">>

LineColoc2 == Tabbed(<<B201701, Taa, Trukc, <<"2">>>>)
LineColoc3 == Tabbed(<<B201701, Taa, Trukc, <<"3">>>>)
LineEmptySecond == Tabbed(<<B201701, Taa, <<>>, <<"5">>>>)
LineFreq == Tabbed(<<B201701, Taa, <<"1", "2">>>>)
LineColocOther == Tabbed(<<B201702, Taa, Trukc, <<"4">>>>)
LineTwoFields == Tabbed(<<B201701, Taa>>)
LineNotNumeric == Tabbed(<<B201701, Taa, Trukc, <<"x">>>>)
LineFiveFields == Tabbed(<<B201701, Taa, Trukc, Tbb, <<"7">>>>)

Lines ==
    <<LineColoc2, LineColoc3, LineEmptySecond, LineFreq, LineColocOther,
      LineTwoFields, LineNotNumeric, LineFiveFields>>

LineSet == { Lines[i] : i \in 1..Len(Lines) }

\* The key/value records of each line of Lines: what the mapper yields for
\* it, split into key and value.
MapOutput == [l \in LineSet |-> LET outs == mapper(l) IN [j \in 1..Len(outs) |-> KeyValue(outs[j])]]

\* The input files: every bag of at most MaxLines lines, listed in the
\* order of Lines (the order of a file's lines is not the order they are
\* mapped in).
Inputs ==
    UNION { { [i \in 1..n |-> Lines[ix[i]]] :
              ix \in { f \in [1..n -> 1..Len(Lines)] :
                         \A i \in 1..n, j \in 1..n : i < j => f[i] <= f[j] } } :
            n \in 0..MaxLines }

VARIABLES
    input,       \* the lines of the input file
    numWorkers,  \* the number of reduce tasks
    pending,     \* the indices of the lines not mapped yet
    partition,   \* the reduce task of each partition field hashed so far
    shuffle,     \* per reduce task and key, the values in arrival order
    reduced,     \* per reduce task, the keys the reducer was called with
    outputs,     \* per output name, the lines written, in order
    jobState     \* "running", "succeeded" or "failed"

vars == <<input, numWorkers, pending, partition, shuffle, reduced, outputs, jobState>>

Init ==
    /\ input \in Inputs
    /\ numWorkers \in 1..MaxWorkers
    /\ pending = 1..Len(input)
    /\ partition = <<>>
    /\ shuffle = [w \in 1..numWorkers |-> <<>>]
    /\ reduced = [w \in 1..numWorkers |-> {}]
    /\ outputs = <<>>
    /\ jobState = "running"

\* The keys delivered to reduce task w.
KeysOf(w) == DOMAIN shuffle[w]

\* The values of key k at reduce task w, in arrival order.
ValuesOf(w, k) == shuffle[w][k]

\* The reduce tasks a partition field that has not been hashed yet can fall
\* to: the hash is any function of the field, and reduce tasks differ in
\* their number only, so the tasks already in use and the first idle one
\* stand for all.
UsedWorkers == { partition[pf] : pf \in DOMAIN partition }

FreshWorkers ==
    UsedWorkers \cup { w \in 1..numWorkers : \A u \in 1..numWorkers : u < w => u \in UsedWorkers }

\* A map task takes one line, runs the mapper on it, and each string it
\* yields is split into key and value and sent to the reduce task of its
\* partition field.
Map(i) ==
    /\ jobState = "running"
    /\ i \in pending
    /\ LET recs == MapOutput[input[i]] IN
       IF Len(recs) = 0
       THEN UNCHANGED <<partition, shuffle>>
       ELSE LET rec == recs[1]
                pf == PartitionField(rec)
            IN \E w \in 1..numWorkers :
                /\ IF pf \in DOMAIN partition THEN w = partition[pf] ELSE w \in FreshWorkers
                /\ partition' = (pf :> w) @@ partition
                /\ shuffle' = [shuffle EXCEPT ![w] =
                       (rec.key :> (IF rec.key \in DOMAIN @
                                    THEN Append(@[rec.key], rec.value)
                                    ELSE <<rec.value>>)) @@ @]
    /\ pending' = pending \ {i}
    /\ UNCHANGED <<input, numWorkers, reduced, outputs, jobState>>

\* A reduce task that does not wait for the end of the map phase.
CanReduceEarly(w, k) ==
    /\ jobState = "running"
    /\ k \in KeysOf(w) \ reduced[w]

\* Whether reduce task w may be given key k: the map phase is over and the
\* reducer has not been called with k.

CanReduce(w, k) ==
    /\ jobState = "running"
    /\ pending = {}
    /\ k \in KeysOf(w) \ reduced[w]

\* A reduce task calls the reducer with one key and all its values; the
\* pair it yields is written to the output named by the key's first field.
\* A reducer that raises fails the job.
Reduce(w, k) ==
    /\ CanReduce(w, k)
    /\ LET r == reducer(k, ValuesOf(w, k)) IN
       IF r.ok
       THEN LET name == OutputName(r.key)
                line == OutputLine(r.key, r.total)
            IN /\ outputs' = (name :> (IF name \in DOMAIN outputs
                                       THEN Append(outputs[name], line)
                                       ELSE <<line>>)) @@ outputs
               /\ jobState' = jobState
       ELSE /\ outputs' = outputs
            /\ jobState' = "failed"
    /\ reduced' = [reduced EXCEPT ![w] = @ \cup {k}]
    /\ UNCHANGED <<input, numWorkers, pending, partition, shuffle>>

\* The job succeeds once every key of every reduce task has been reduced.
Succeed ==
    /\ jobState = "running"
    /\ pending = {}
    /\ \A w \in 1..numWorkers : KeysOf(w) \subseteq reduced[w]
    /\ jobState' = "succeeded"
    /\ UNCHANGED <<input, numWorkers, pending, partition, shuffle, reduced, outputs>>

Next ==
    \/ \E i \in pending : Map(i)
    \/ \E w \in 1..numWorkers : \E k \in KeysOf(w) : Reduce(w, k)
    \/ Succeed

Spec == Init /\ [][Next]_vars

(***************************************************************************)
(* What the properties are stated in: the records of the specification,    *)
(* computed from the input lines by field position alone.                  *)
(***************************************************************************)
Mapped == (1..Len(input)) \ pending

\* The fields of each line of Lines.
Fields == [l \in LineSet |-> Split(l)]

Arity(l) == Len(Fields[l])

\* A line of one of the two documented shapes, with a numeric count.
ValidLines == { l \in LineSet : Arity(l) \in {3, 4} /\ IsInt(Fields[l][Arity(l)]) }

IsValid(l) == l \in ValidLines

AllValid == \A i \in 1..Len(input) : IsValid(input[i])

GroupKey(l) ==
    LET parts == Fields[l] IN
    IF Len(parts) = 3
    THEN [recordType |-> "Frequency", bucket |-> parts[1],
          primaryKey |-> parts[2], secondaryKey |-> <<>>]
    ELSE [recordType |-> "Cooccurrence", bucket |-> parts[1],
          primaryKey |-> parts[2], secondaryKey |-> parts[3]]

CountOf(l) == IntOf(Fields[l][Arity(l)])

GroupKeys == { GroupKey(input[i]) : i \in { j \in 1..Len(input) : IsValid(input[j]) } }

\* The sum of the counts of the first n input lines whose GroupKey is g.
RECURSIVE SumUpTo(_, _)
SumUpTo(g, n) ==
    IF n = 0 THEN 0
    ELSE SumUpTo(g, n - 1)
         + (IF IsValid(input[n]) /\ GroupKey(input[n]) = g THEN CountOf(input[n]) ELSE 0)

FullSum(g) == SumUpTo(g, Len(input))

TypePrefix(t) == IF t = "Frequency" THEN FreqnPrefix ELSE ColocPrefix

DestName(g) == TypePrefix(g.recordType) \o g.bucket

DestLine(g, total) ==
    g.primaryKey \o <<TAB>> \o g.secondaryKey \o <<TAB>> \o ToStr(total)

\* The key/value record a classified record is carried as.
RecordOf(t, b, p, s, c) ==
    [key |-> TypePrefix(t) \o b \o <<TAB>> \o p \o <<TAB>> \o s, value |-> c]

\* The records delivered: <<reduce task, key, position among the key's values>>.
ShuffleSlots ==
    UNION { UNION { { <<w, k, i>> : i \in 1..Len(shuffle[w][k]) } : k \in DOMAIN shuffle[w] } :
            w \in 1..numWorkers }

RecordCount(rec) ==
    Cardinality({ p \in ShuffleSlots : p[2] = rec.key /\ shuffle[p[1]][p[2]][p[3]] = rec.value })

OutputSlots ==
    UNION { { <<n, j>> : j \in 1..Len(outputs[n]) } : n \in DOMAIN outputs }

Written(name, line) ==
    Cardinality({ p \in OutputSlots : p[1] = name /\ outputs[p[1]][p[2]] = line })

\* The record type an output name stands for: its five-letter tag.
TypeOfName(name) == SubSeq(name, 1, 5)

\* Every arrangement of a sequence.
Perms(n) == { f \in [1..n -> 1..n] : \A i \in 1..n, j \in 1..n : f[i] = f[j] => i = j }

\* A GroupKey one of whose records, as keyed by the job, has a value that
\* is no integer: its full count cannot be observed.
Unobservable(g) ==
    \E i \in 1..Len(input) :
        LET parts == Fields[input[i]] IN
        /\ ~IsValid(input[i])
        /\ Len(parts) >= 4
        /\ g = [recordType |-> "Cooccurrence", bucket |-> parts[1],
                primaryKey |-> parts[2], secondaryKey |-> parts[3]]

(***************************************************************************)
(* C1                                                                      *)
(***************************************************************************)

\* C1: every mapped line of exactly 3 fields [B, P, C] with numeric C has
\* yielded exactly one record, a Frequency record with bucket B, primary
\* key P, secondary key "" and count int(C); every mapped line of exactly
\* 4 fields [B, P, S, C] with numeric C has yielded exactly one record, a
\* Cooccurrence record with bucket B, primary key P, secondary key S and
\* count int(C).
C1_ClassifiedByArity ==
    \A i \in Mapped :
        LET parts == Fields[input[i]]
            same == Cardinality({ j \in Mapped : input[j] = input[i] })
        IN /\ (Len(parts) = 3 /\ IsInt(parts[3])) =>
                 RecordCount(RecordOf("Frequency", parts[1], parts[2], <<>>, parts[3])) = same
           /\ (Len(parts) = 4 /\ IsInt(parts[4])) =>
                 RecordCount(RecordOf("Cooccurrence", parts[1], parts[2], parts[3], parts[4])) = same
           /\ Cardinality(ShuffleSlots) = Cardinality(Mapped)

C1_Witness ==
    /\ \E i \in Mapped : Arity(input[i]) = 3 /\ IsValid(input[i])
    /\ \E i \in Mapped : Arity(input[i]) = 4 /\ IsValid(input[i])
    /\ \E i \in Mapped : Arity(input[i]) = 4 /\ Fields[input[i]][3] = <<>>

(***************************************************************************)
(* C2                                                                      *)
(***************************************************************************)

\* C2: a line whose field count is neither 3 nor 4 is never emitted as a
\* Frequency or Cooccurrence record: the records emitted are as many as the
\* mapped lines of 3 or 4 fields.
C2_MalformedNeverClassified ==
    Cardinality(ShuffleSlots) = Cardinality({ i \in Mapped : Arity(input[i]) \in {3, 4} })

(***************************************************************************)
(* C3                                                                      *)
(***************************************************************************)

\* C3 as claimed: there is one output destination per record type, so two
\* records of the same type are written to the same destination whatever
\* their buckets.
C3_OneDestinationPerType ==
    \A n1 \in DOMAIN outputs, n2 \in DOMAIN outputs :
        TypeOfName(n1) = TypeOfName(n2) => n1 = n2

\* C3 as amended: the destinations written by a successful run are exactly
\* the names made of a type tag and a bucket, one per (recordType, bucket)
\* pair of the input, whatever the keys; records of one type and bucket with
\* different keys are written to the same destination.
C3_OneDestinationPerTypeAndBucket ==
    jobState = "succeeded" =>
        /\ DOMAIN outputs = { DestName(g) : g \in GroupKeys }
        /\ \A g \in GroupKeys : \E j \in 1..Len(outputs[DestName(g)]) :
               outputs[DestName(g)][j] = DestLine(g, FullSum(g))

C3_Witness ==
    /\ jobState = "succeeded"
    /\ \E n1 \in DOMAIN outputs, n2 \in DOMAIN outputs :
           TypeOfName(n1) = TypeOfName(n2) /\ n1 # n2
    /\ \E n \in DOMAIN outputs : Len(outputs[n]) >= 2

(***************************************************************************)
(* C4                                                                      *)
(***************************************************************************)

\* C4: after a complete run over valid lines, every GroupKey of the input
\* has exactly one output line, whose total is the sum of the counts of the
\* input records with that GroupKey, and no other line is written.
C4_OneTotalPerGroupKey ==
    (jobState = "succeeded" /\ AllValid) =>
        /\ \A g \in GroupKeys : Written(DestName(g), DestLine(g, FullSum(g))) = 1
        /\ Cardinality(OutputSlots) = Cardinality(GroupKeys)

C4_Witness ==
    /\ jobState = "succeeded"
    /\ AllValid
    /\ Cardinality(GroupKeys) = 2
    /\ Len(input) = 3

(***************************************************************************)
(* C5                                                                      *)
(***************************************************************************)

\* C5: the total written for a key is the one the reducer yields for every
\* order its values can be delivered in.
C5_OrderIndependent ==
    \A w \in 1..numWorkers : \A k \in reduced[w] :
        LET vs == ValuesOf(w, k) IN
        reducer(k, vs).ok =>
            \A f \in Perms(Len(vs)) :
                LET r == reducer(k, [i \in 1..Len(vs) |-> vs[f[i]]]) IN
                r.ok /\ Written(OutputName(k), OutputLine(k, r.total)) = 1

C5_Witness ==
    /\ jobState = "succeeded"
    /\ \E w \in 1..numWorkers : \E k \in reduced[w] :
           LET vs == ValuesOf(w, k) IN Len(vs) >= 2 /\ vs[1] # vs[2]

(***************************************************************************)
(* C6                                                                      *)
(***************************************************************************)

\* The values of key k among the records recs, in order.
RECURSIVE ValuesFrom(_, _)
ValuesFrom(recs, k) ==
    IF Len(recs) = 0 THEN <<>>
    ELSE IF recs[1].key = k THEN <<recs[1].value>> \o ValuesFrom(Tail(recs), k)
    ELSE ValuesFrom(Tail(recs), k)

\* The records of the whole input, as one reduce task would receive them.
RECURSIVE RecordsUpTo(_)
RecordsUpTo(n) ==
    IF n = 0 THEN <<>>
    ELSE RecordsUpTo(n - 1) \o MapOutput[input[n]]

SingleWorkerOutput ==
    LET recs == RecordsUpTo(Len(input)) IN
    { <<OutputName(k), OutputLine(k, reducer(k, ValuesFrom(recs, k)).total)>> :
        k \in { recs[i].key : i \in 1..Len(recs) } }

\* C6: no key's records are split between two reduce tasks, and a
\* successful run with any number of reduce tasks writes the lines a run
\* with one reduce task writes, each once.
C6_RepartitionInvariant ==
    /\ \A w1 \in 1..numWorkers, w2 \in 1..numWorkers :
           w1 # w2 => KeysOf(w1) \cap KeysOf(w2) = {}
    /\ jobState = "succeeded" =>
           /\ { <<p[1], outputs[p[1]][p[2]]>> : p \in OutputSlots } = SingleWorkerOutput
           /\ Cardinality(OutputSlots) = Cardinality(SingleWorkerOutput)

C6_Witness ==
    /\ jobState = "succeeded"
    /\ numWorkers >= 2
    /\ \E w1 \in 1..numWorkers, w2 \in 1..numWorkers :
           w1 # w2 /\ reduced[w1] # {} /\ reduced[w2] # {}
    /\ \E w \in 1..numWorkers : \E k \in reduced[w] : Len(ValuesOf(w, k)) >= 2

(***************************************************************************)
(* C7                                                                      *)
(***************************************************************************)
ExampleInput == <<LineColoc2, LineColoc3, LineEmptySecond>>

Line_aa_empty_5 == Tabbed(<<Taa, <<>>, <<"5">>>>)
Line_aa_rukc_5 == Tabbed(<<Taa, Trukc, <<"5">>>>)

\* C7 as claimed: for the three example lines the Frequency output holds
\* the line aa<TAB><TAB>5, the Cooccurrence output holds aa<TAB>rukc<TAB>5,
\* and no line of the Cooccurrence output has an empty secondary key.
C7_EmptySecondaryIsFrequency ==
    (input = ExampleInput /\ jobState = "succeeded") =>
        /\ Written(FreqnPrefix \o B201701, Line_aa_empty_5) = 1
        /\ Written(ColocPrefix \o B201701, Line_aa_rukc_5) = 1
        /\ \A p \in OutputSlots :
               TypeOfName(p[1]) = TypeOfName(ColocPrefix) =>
                   Split(outputs[p[1]][p[2]])[2] # <<>>

\* C7 as amended: for the three example lines the Cooccurrence output of
\* bucket 201701 holds the two lines aa<TAB>rukc<TAB>5 and aa<TAB><TAB>5,
\* and nothing is written to a Frequency output.
C7_EmptySecondaryIsCooccurrence ==
    (input = ExampleInput /\ jobState = "succeeded") =>
        /\ DOMAIN outputs = {ColocPrefix \o B201701}
        /\ Written(ColocPrefix \o B201701, Line_aa_rukc_5) = 1
        /\ Written(ColocPrefix \o B201701, Line_aa_empty_5) = 1
        /\ Len(outputs[ColocPrefix \o B201701]) = 2

C7_Witness == input = ExampleInput /\ jobState = "succeeded"

(***************************************************************************)
(* C8                                                                      *)
(***************************************************************************)

\* The lines that contributed no record: the skip count of the run.
Skipped == Len(input) - Cardinality(ShuffleSlots)

\* C8: the job has no tolerance option (its parameters are input_file and
\* from_hdfs), so one configuration stands for every tolerance.  The
\* claim's case of a tolerance of 1: a run that has ended on an input whose
\* one malformed line is 201701<TAB>aa has succeeded, with a skip count of
\* exactly 1.
C8_MalformedLineSkipped ==
    ( /\ jobState # "running"
      /\ Cardinality({ i \in 1..Len(input) : ~IsValid(input[i]) }) = 1
      /\ \E i \in 1..Len(input) : input[i] = LineTwoFields )
    => (jobState = "succeeded" /\ Skipped = 1)

(***************************************************************************)
(* C9                                                                      *)
(***************************************************************************)

\* C9: a run in which the reducer raised has failed, never succeeded; and
\* in every state every line a destination holds is the full sum of the
\* input counts of a GroupKey all of whose records could be summed.
C9_NoPartialTotals ==
    /\ \A w \in 1..numWorkers : \A k \in reduced[w] :
           ~SumInts(ValuesOf(w, k)).ok => jobState = "failed"
    /\ jobState = "succeeded" => AllValid
    /\ \A p \in OutputSlots :
           \E g \in GroupKeys :
               /\ ~Unobservable(g)
               /\ p[1] = DestName(g)
               /\ outputs[p[1]][p[2]] = DestLine(g, FullSum(g))

C9_Witness ==
    /\ jobState = "failed"
    /\ OutputSlots # {}
    /\ \E w \in 1..numWorkers : \E k \in reduced[w] :
           LET vs == ValuesOf(w, k) IN
           Len(vs) >= 2 /\ (\E i \in 1..Len(vs) : IsInt(vs[i]))
                        /\ (\E i \in 1..Len(vs) : ~IsInt(vs[i]))

(***************************************************************************)
(* C10                                                                     *)
(***************************************************************************)

\* The key the job gives the records of a line.
KeyOfLine(l) == MapOutput[l][1].key

\* Reduce task w has been sent every line that can be sent to it.
PartitionComplete(w) ==
    \A i \in pending :
        LET pf == PartitionField(MapOutput[input[i]][1]) IN
        pf \in DOMAIN partition /\ partition[pf] # w

====
